---- MODULE Spec2Model ----
(***************************************************************************)
(* Model of the meeting time logger (src/src/main.rs): the log file, the   *)
(* `log` and `list` commands, the record codec, the date-range filter and  *)
(* the minute total.                                                       *)
(*                                                                         *)
(* Time is counted in seconds; a UTC instant is an integer number of       *)
(* seconds and a calendar date is a day number.  A u32 is kept as two      *)
(* 16-bit limbs so that the 32-bit width of `length` and of the running    *)
(* total is exact.  The file is a sequence of symbols: the pieces of an    *)
(* encoded record, the newline, and a junk symbol for any other text.      *)
(***************************************************************************)
EXTENDS Integers, Sequences, FiniteSets, Bags, TLC

VARIABLES
    file,       \* content of <home>/.meetings, a sequence of symbols
    present,    \* whether the file exists
    now,        \* the current instant (UTC seconds)
    tz,         \* the local time zone of the invoking process
    homeOk,     \* whether UserDirs::new() can report a home directory
    checks,     \* whether the build traps integer overflow (debug profile)
    cmd,        \* the last invocation
    result,     \* how the last invocation ended
    out,        \* lines the last invocation printed on stdout
    records,    \* the vector load_records returned to the last `list`
    minutes,    \* print_records' accumulator when the last `list` ended
    hist,       \* history: the lines of the file, as they were put there
    logged,     \* history: the successful `log` invocations
    pc,         \* SpecRW, SpecWW: position of each concurrent `log` process
    pm,         \* SpecRW, SpecWW: the Meeting each `log` process is writing
    before,     \* SpecRW, SpecWW: the file as each `log` process found it
    writes      \* SpecRW, SpecWW: history of the append writes, by process

vars == <<file, present, now, tz, homeOk, checks, cmd, result, out, records,
          minutes, hist, logged, pc, pm, before, writes>>

----------------------------------------------------------------------------
(* Bounds *)

MaxLogs == 2
MaxTicks == 1
MaxDay == 1

----------------------------------------------------------------------------
(* Time, dates and the local time zone *)

Hour == 60 * 60
Day == 24 * Hour

\* A zone has a standard offset std.  A zone with dst moves its clocks forward
\* by one hour at local midnight of day gap (00:00 -> 01:00, so 00:00..00:59
\* do not exist) and back at 01:00 of day overlap (so 00:00..00:59 occur
\* twice).
Zones ==
    { [std |-> -(5 * Hour), dst |-> FALSE, gap |-> 0, overlap |-> 0],
      [std |-> 9 * Hour, dst |-> FALSE, gap |-> 0, overlap |-> 0],
      [std |-> -(3 * Hour), dst |-> TRUE, gap |-> 0, overlap |-> 1] }

\* Offset of local time from UTC at the instant u.
Offset(z, u) ==
    IF z.dst /\ u >= z.gap * Day - z.std /\ u < z.overlap * Day - z.std
    THEN z.std + Hour
    ELSE z.std

\* with_timezone(&Local).date(): the local calendar date of an instant.
LocalDate(z, u) == (u + Offset(z, u)) \div Day

\* TimeZone::from_local_datetime: the instants whose local reading is second
\* s of date d: none (gap), one, or two (overlap).
LocalInstants(z, d, s) ==
    { u \in {d * Day + s - z.std, d * Day + s - z.std - Hour} :
        u + Offset(z, u) = d * Day + s }

\* Local::today()
Today == LocalDate(tz, now)

\* Option values are sequences of length at most one.
None == <<>>
Some(x) == <<x>>

\* cmp::min of two Date<Local>, which are ordered by their calendar date.
MinDate(left, right) == IF left <= right THEN left ELSE right

\* to_local_date: the date anchored in the local zone through its midnight:
\* None -> Err, Single -> the date, Ambiguous -> the lesser of the two
\* readings, both of which carry the calendar date asked for.
to_local_date(date) ==
    LET at == LocalInstants(tz, date, 0) IN
    IF at = {} THEN None
    ELSE IF Cardinality(at) = 1 THEN Some(date)
    ELSE Some(MinDate(date, date))

----------------------------------------------------------------------------
(* u32 *)

Limb == 2 ^ 16

U32(h, l) == [hi |-> h, lo |-> l]
U32Zero == U32(0, 0)
U32Max == U32(Limb - 1, Limb - 1)
Small(n) == U32(0, n)

\* The mathematical sum of two numbers in limbs (hi is not reduced).
AddNat(a, b) ==
    [hi |-> a.hi + b.hi + (a.lo + b.lo) \div Limb, lo |-> (a.lo + b.lo) % Limb]

Overflows(a, b) == AddNat(a, b).hi >= Limb

\* u32 += with wrapping (release profile).
AddWrap(a, b) == [hi |-> AddNat(a, b).hi % Limb, lo |-> AddNat(a, b).lo]

----------------------------------------------------------------------------
(* Meeting and its codec *)

Meeting(t, n) == [timestamp |-> t, length |-> n]

\* Meeting::today: today's date at start:00:00 local, in UTC.  and_hms
\* panics when the hour is not a valid hour or the local time does not
\* resolve to a single instant.
MeetingToday(start, length) ==
    LET at == LocalInstants(tz, Today, start * Hour) IN
    IF start > 23 \/ Cardinality(at) # 1 THEN None
    ELSE Some(Meeting(CHOOSE u \in at : TRUE, length))

is_within_range(m, start, end) ==
    LET compare == LocalDate(tz, m.timestamp) IN compare >= start /\ compare <= end

\* Display for Meeting: "%F %R: N minutes" of the local time.
Display(m) ==
    LET local == m.timestamp + Offset(tz, m.timestamp) IN
    [k |-> "meeting", date |-> local \div Day, hh |-> (local % Day) \div Hour,
     mm |-> ((local % Day) % Hour) \div 60, length |-> m.length]

LBrace == [k |-> "{"]
RBrace == [k |-> "}"]
NL == [k |-> "nl"]
Junk == [k |-> "junk"]
TsSym(t) == [k |-> "timestamp", ts |-> t]
LenSym(n) == [k |-> "length", len |-> n]

\* serde_json::to_writer(&meeting): the fields in declaration order.
Encode(m) == <<LBrace, TsSym(m.timestamp), LenSym(m.length), RBrace>>

\* The same object with its keys in the other order, as an editor may write it.
EncodeSwapped(m) == <<LBrace, LenSym(m.length), TsSym(m.timestamp), RBrace>>

\* serde_json::from_str(s).ok(): one object with both keys, in either order,
\* and nothing after it.
parse_meeting(s) ==
    IF Len(s) = 4 /\ s[1] = LBrace /\ s[4] = RBrace
    THEN IF s[2].k = "timestamp" /\ s[3].k = "length"
         THEN Some(Meeting(s[2].ts, s[3].len))
         ELSE IF s[2].k = "length" /\ s[3].k = "timestamp"
         THEN Some(Meeting(s[3].ts, s[2].len))
         ELSE None
    ELSE None

\* str::lines: the text between newlines; a last line with no newline after
\* it counts when it is not empty.
RECURSIVE LinesFrom(_, _)
LinesFrom(s, cur) ==
    IF s = <<>> THEN (IF cur = <<>> THEN <<>> ELSE <<cur>>)
    ELSE IF Head(s) = NL THEN <<cur>> \o LinesFrom(Tail(s), <<>>)
    ELSE LinesFrom(Tail(s), Append(cur, Head(s)))

Lines(content) == LinesFrom(content, <<>>)

\* Variant: the first line that does not parse ends the loading.
RECURSIVE FilterMapParseStop(_)
FilterMapParseStop(ls) ==
    IF ls = <<>> \/ parse_meeting(Head(ls)) = None THEN <<>>
    ELSE parse_meeting(Head(ls)) \o FilterMapParseStop(Tail(ls))

\* .filter_map(parse_meeting)
RECURSIVE FilterMapParse(_)
FilterMapParse(ls) ==
    IF ls = <<>> THEN <<>> ELSE parse_meeting(Head(ls)) \o FilterMapParse(Tail(ls))

\* Variant: an element goes before those with an equal key (not stable).
RECURSIVE InsertByKeyUnstable(_, _)
InsertByKeyUnstable(sorted, m) ==
    IF sorted = <<>> THEN <<m>>
    ELSE IF Head(sorted).timestamp < m.timestamp
    THEN <<Head(sorted)>> \o InsertByKeyUnstable(Tail(sorted), m)
    ELSE <<m>> \o sorted

\* Vec::sort_by_key(|x| x.timestamp): a stable sort, here by insertion after
\* every element whose key is not greater.
RECURSIVE InsertByKey(_, _)
InsertByKey(sorted, m) ==
    IF sorted = <<>> THEN <<m>>
    ELSE IF Head(sorted).timestamp <= m.timestamp
    THEN <<Head(sorted)>> \o InsertByKey(Tail(sorted), m)
    ELSE <<m>> \o sorted

RECURSIVE SortFrom(_, _)
SortFrom(rest, sorted) ==
    IF rest = <<>> THEN sorted
    ELSE SortFrom(Tail(rest), InsertByKey(sorted, Head(rest)))

sort_by_key(rs) == SortFrom(rs, <<>>)

----------------------------------------------------------------------------
(* The list command *)

\* An outcome of a command: how it ended and what it left behind.
Outcome(res, printed, loaded, total) ==
    [result |-> res, out |-> printed, records |-> loaded, minutes |-> total]

Fail(res) == Outcome(res, <<>>, <<>>, U32Zero)

\* .filter(f) with f = |x| x.is_within_range(start, end)
FilterRange(rs, start, end) ==
    SelectSeq(rs, LAMBDA m : is_within_range(m, start, end))

\* Variant: a file that does not exist reads as an empty one.
load_records_create(start, end, content, exists, io) ==
    IF ~homeOk THEN Fail("err_home")
    ELSE IF ~io THEN Fail("err_io")
    ELSE Outcome("ok", <<>>,
                 sort_by_key(FilterRange(FilterMapParse(Lines(content)), start, end)),
                 U32Zero)

\* load_records: log_path()?, read_to_string(..)?, then the parse, filter,
\* collect and sort.  io is whether the file can be read.
load_records(start, end, content, exists, io) ==
    IF ~homeOk THEN Fail("err_home")
    ELSE IF ~exists \/ ~io THEN Fail("err_io")
    ELSE Outcome("ok", <<>>,
                 sort_by_key(FilterRange(FilterMapParse(Lines(content)), start, end)),
                 U32Zero)

\* {:.1} of f64::from(minutes) / 60.0, in tenths of an hour: the nearest
\* tenth; at an exact half-way point between two tenths the rendering is one
\* of the two neighbours (which one is decided by the floating-point
\* quotient and the formatter), so the value is the set of candidates.
HoursTenths(v) ==
    LET rest == (v.hi % 6) * Limb + v.lo
        q == (v.hi \div 6) * Limb + rest \div 6
        r == rest % 6
    IN  IF r < 3 THEN {q} ELSE IF r > 3 THEN {q + 1} ELSE {q, q + 1}

TotalLine(v) == [k |-> "total", tenths |-> HoursTenths(v)]

\* print_records: add each length to the u32 total, print the record, and
\* print the total at the end.  With overflow checks the addition panics
\* before the record is printed; without them it wraps.
RECURSIVE PrintLoop(_, _, _, _)
PrintLoop(rest, total, printed, all) ==
    IF rest = <<>>
    THEN Outcome("ok", Append(printed, TotalLine(total)), all, total)
    ELSE IF checks /\ Overflows(total, Head(rest).length)
    THEN Outcome("panic_overflow", printed, all, total)
    ELSE PrintLoop(Tail(rest), AddWrap(total, Head(rest).length),
                   Append(printed, Display(Head(rest))), all)

print_records(rs) == PrintLoop(rs, U32Zero, <<>>, rs)

list_range(start, end, content, exists, io) ==
    LET s == to_local_date(start)
        e == to_local_date(end)
    IN  IF s = None \/ e = None THEN Fail("err_date")
        ELSE LET l == load_records(s[1], e[1], content, exists, io) IN
             IF l.result # "ok" THEN l ELSE print_records(l.records)

\* Variant: a single date lists that day and the next.
list_date_two_days(date, content, exists, io) ==
    LET d == to_local_date(date) IN
    IF d = None THEN Fail("err_date")
    ELSE LET l == load_records(d[1], d[1] + 1, content, exists, io) IN
         IF l.result # "ok" THEN l ELSE print_records(l.records)

list_date(date, content, exists, io) ==
    LET d == to_local_date(date) IN
    IF d = None THEN Fail("err_date")
    ELSE LET l == load_records(d[1], d[1], content, exists, io) IN
         IF l.result # "ok" THEN l ELSE print_records(l.records)

list_today(content, exists, io) ==
    LET l == load_records(Today, Today, content, exists, io) IN
    IF l.result # "ok" THEN l ELSE print_records(l.records)

\* Opt::List from the command line: positional arguments fill start, then end.
ParseList(args) ==
    [start |-> IF Len(args) >= 1 THEN Some(args[1]) ELSE None,
     end |-> IF Len(args) >= 2 THEN Some(args[2]) ELSE None]

\* list: the match on (start, end).
list(opt, content, exists, io) ==
    IF opt.start # None /\ opt.end # None
    THEN list_range(opt.start[1], opt.end[1], content, exists, io)
    ELSE IF opt.start # None /\ opt.end = None
    THEN list_date(opt.start[1], content, exists, io)
    ELSE IF opt.start = None /\ opt.end = None
    THEN list_today(content, exists, io)
    ELSE Fail("panic_unreachable")

----------------------------------------------------------------------------
(* Inputs *)

Dates == 0 .. MaxDay
DateArgs == {<<>>} \cup {<<d>> : d \in Dates} \cup {<<d, e>> : d, e \in Dates}
\* A run of list: its arguments, and whether the log file can be read; the
\* unreadable file is tried with the plain list.
ListInputs ==
    {[args |-> a, io |-> TRUE] : a \in DateArgs} \cup {[args |-> <<>>, io |-> FALSE]}
\* log START LENGTH: an hour at midnight, the longest meeting a u32 holds at
\* noon (the hour of a record the edited file already has), and an hour that
\* is not one.
LogArgs ==
    { [start |-> 0, length |-> Small(60)],
      [start |-> 12, length |-> U32Max],
      [start |-> 25, length |-> Small(60)] }
Procs == {"L1", "L2"}

\* The earliest instant that reads second s of date d in zone z.
At(z, d, s) ==
    CHOOSE u \in LocalInstants(z, d, s) : \A w \in LocalInstants(z, d, s) : u <= w

\* A line of the file as the history keeps it: its text and the record it
\* stands for, if it stands for one.
RecLine(m) == [text |-> Encode(m), rec |-> Some(m)]
SwappedLine(m) == [text |-> EncodeSwapped(m), rec |-> Some(m)]
BadLine(t) == [text |-> t, rec |-> None]

\* The files a run may start from: no file, an empty file, and a file that
\* was edited by hand: junk, a record at noon of local day 1, an empty line,
\* an earlier record (the last second of local day 0) with its keys swapped,
\* two records on one line, and a record cut short.
InitFiles(z) ==
    { [present |-> FALSE, lines |-> <<>>],
      [present |-> TRUE, lines |-> <<>>],
      [present |-> TRUE,
       lines |-> << BadLine(<<Junk>>),
                    RecLine(Meeting(At(z, 1, 12 * Hour), Small(30))),
                    BadLine(<<>>),
                    SwappedLine(Meeting(At(z, 0, Day - 1), Small(15))),
                    BadLine(Encode(Meeting(At(z, 0, 12 * Hour), Small(60)))
                            \o Encode(Meeting(At(z, 0, 12 * Hour), Small(60)))),
                    BadLine(<<LBrace, TsSym(At(z, 0, 12 * Hour))>>) >>] }

\* The text of a file made of the given lines, each ended by a newline.
RECURSIVE Flatten(_)
Flatten(ls) ==
    IF ls = <<>> THEN <<>> ELSE Head(ls).text \o <<NL>> \o Flatten(Tail(ls))

----------------------------------------------------------------------------
(* Sequential invocations *)

Init ==
    /\ tz \in Zones
    /\ homeOk \in BOOLEAN
    /\ checks \in BOOLEAN
    /\ now = 12 * Hour
    /\ \E f \in InitFiles(tz) :
          /\ present = f.present
          /\ hist = f.lines
          /\ file = Flatten(f.lines)
    /\ cmd = [op |-> "none"]
    /\ result = "ok"
    /\ out = <<>>
    /\ records = <<>>
    /\ minutes = U32Zero
    /\ logged = <<>>
    /\ pc = [p \in Procs |-> "idle"]
    /\ pm = [p \in Procs |-> None]
    /\ before = [p \in Procs |-> [present |-> FALSE, content |-> <<>>]]
    /\ writes = <<>>

\* Variant: the file is opened with truncate(true).
OpenedTruncate(content) == <<>>

\* OpenOptions::new().create(true).append(true).open(path): the content is
\* kept and every write goes to the end.
Opened(content) == content

\* serde_json::to_writer(&mut log, &meeting)
WriteRecord(content, m) == content \o Encode(m)

\* Variant: no newline is written after the record.
WriteNewlineNone(content) == content

\* log.write_all("\n".as_bytes())
WriteNewline(content) == content \o <<NL>>

\* log START LENGTH, run from start to end with no other process running.
\* io is whether the file can be opened for appending.
Log(start, length, io) ==
    /\ Len(logged) < MaxLogs
    /\ LET m == MeetingToday(start, length) IN
       IF m = None \/ ~homeOk \/ ~io
       THEN /\ result' = (IF m = None THEN "panic_time"
                          ELSE IF ~homeOk THEN "err_home" ELSE "err_io")
            /\ UNCHANGED <<file, present, hist, logged>>
       ELSE /\ result' = "ok"
            /\ file' = WriteNewline(WriteRecord(Opened(file), m[1]))
            /\ present' = TRUE
            /\ hist' = Append(hist, RecLine(m[1]))
            /\ logged' = Append(logged, [day |-> Today, start |-> start,
                                          length |-> length])
    /\ cmd' = [op |-> "log", start |-> start, length |-> length]
    /\ out' = <<>>
    /\ records' = <<>>
    /\ minutes' = U32Zero
    /\ UNCHANGED <<now, tz, homeOk, checks, pc, pm, before, writes>>

\* list [START_DATE] [END_DATE].  io is whether the file can be read.
List(args, io) ==
    /\ \E o \in {list(ParseList(args), file, present, io)} :
         /\ result' = o.result
         /\ out' = o.out
         /\ records' = o.records
         /\ minutes' = o.minutes
    /\ cmd' = [op |-> "list", args |-> args, io |-> io, at |-> now, during |-> pc]
    /\ UNCHANGED <<file, present, now, tz, homeOk, checks, hist, logged,
                   pc, pm, before, writes>>

\* Time passes between invocations.
Tick ==
    /\ now < 12 * Hour + MaxTicks * Day
    /\ now' = now + Day
    /\ UNCHANGED <<file, present, tz, homeOk, checks, cmd, result, out, records,
                   minutes, hist, logged, pc, pm, before, writes>>

Next ==
    \/ \E a \in LogArgs, io \in BOOLEAN : Log(a.start, a.length, io)
    \/ \E i \in ListInputs : List(i.args, i.io)
    \/ Tick

Spec == Init /\ [][Next]_vars

----------------------------------------------------------------------------
(* Concurrent invocations.  A `log` process takes its steps one at a time.  *)
(* SpecRW: one `log` process and `list` processes that read the file at any *)
(* point.  SpecWW: two `log` processes, and `list` once both have ended.    *)

Snapshot(exists, content) == [present |-> exists, content |-> content]

\* Meeting::today(start, length) and log_path()?
LogBegin(p, start, length) ==
    /\ pc[p] = "idle"
    /\ LET m == MeetingToday(start, length) IN
       IF m = None \/ ~homeOk
       THEN /\ pc' = [pc EXCEPT ![p] = "failed"]
            /\ UNCHANGED <<pm, before>>
       ELSE /\ pc' = [pc EXCEPT ![p] = "open"]
            /\ pm' = [pm EXCEPT ![p] = m]
            /\ before' = [before EXCEPT ![p] = Snapshot(present, file)]
    /\ UNCHANGED <<file, present, now, tz, homeOk, checks, cmd, result, out,
                   records, minutes, hist, logged, writes>>

\* OpenOptions::new().create(true).append(true).open(path)?
LogOpen(p, io) ==
    /\ pc[p] = "open"
    /\ IF io
       THEN /\ present' = TRUE
            /\ file' = Opened(file)
            /\ pc' = [pc EXCEPT ![p] = "write"]
       ELSE /\ pc' = [pc EXCEPT ![p] = "failed"]
            /\ UNCHANGED <<file, present>>
    /\ UNCHANGED <<now, tz, homeOk, checks, cmd, result, out, records, minutes,
                   hist, logged, pm, before, writes>>

\* serde_json::to_writer(&mut log, &meeting)?
LogWriteRecord(p) ==
    /\ pc[p] = "write"
    /\ file' = WriteRecord(file, pm[p][1])
    /\ pc' = [pc EXCEPT ![p] = "newline"]
    /\ writes' = Append(writes, p)
    /\ UNCHANGED <<present, now, tz, homeOk, checks, cmd, result, out, records,
                   minutes, hist, logged, pm, before>>

\* log.write_all("\n".as_bytes())?; Ok(())
LogWriteNewline(p) ==
    /\ pc[p] = "newline"
    /\ file' = WriteNewline(file)
    /\ pc' = [pc EXCEPT ![p] = "done"]
    /\ writes' = Append(writes, p)
    /\ UNCHANGED <<present, now, tz, homeOk, checks, cmd, result, out, records,
                   minutes, hist, logged, pm, before>>

\* A list run after every log process has ended.
LaterList(args, io) ==
    /\ \A p \in Procs : pc[p] \in {"done", "failed"}
    /\ List(args, io)

NextRW ==
    \/ \E a \in LogArgs : LogBegin("L1", a.start, a.length)
    \/ \E io \in BOOLEAN : LogOpen("L1", io)
    \/ LogWriteRecord("L1")
    \/ LogWriteNewline("L1")
    \/ \E i \in ListInputs : List(i.args, i.io)

SpecRW == Init /\ [][NextRW]_vars

NextWW ==
    \/ \E p \in Procs, a \in LogArgs : LogBegin(p, a.start, a.length)
    \/ \E p \in Procs, io \in BOOLEAN : LogOpen(p, io)
    \/ \E p \in Procs : LogWriteRecord(p)
    \/ \E p \in Procs : LogWriteNewline(p)
    \/ \E i \in ListInputs : LaterList(i.args, i.io)

SpecWW == Init /\ [][NextWW]_vars

----------------------------------------------------------------------------
(* Definitions the properties are stated with.  They are written from what *)
(* the file holds and what a calendar is, not from the code's operators.   *)

Range(s) == {s[i] : i \in DOMAIN s}
SeqBag(s) == [x \in Range(s) |-> Cardinality({i \in DOMAIN s : s[i] = x})]
IsPrefix(s, t) == Len(s) <= Len(t) /\ SubSeq(t, 1, Len(s)) = s

\* The records the lines of the history stand for, in file order.
RECURSIVE RecordsOf(_)
RecordsOf(ls) == IF ls = <<>> THEN <<>> ELSE Head(ls).rec \o RecordsOf(Tail(ls))

HistRecords == RecordsOf(hist)

\* The first instant of local date d: its midnight, or 01:00 when the clocks
\* skip midnight.
FirstInstant(z, d) ==
    IF LocalInstants(z, d, 0) # {} THEN At(z, d, 0) ELSE At(z, d, Hour)

\* The instant of m lies in local dates s .. e.
InWindow(m, s, e) ==
    FirstInstant(tz, s) <= m.timestamp /\ m.timestamp < FirstInstant(tz, e + 1)

HasMidnight(d) == LocalInstants(tz, d, 0) # {}

MeetingLines(printed) == SelectSeq(printed, LAMBDA l : l.k = "meeting")
ShownAs(rs) == [i \in DOMAIN rs |-> Display(rs[i])]

\* The last command was a list that found a home directory and a readable
\* file, and nothing has happened since.
ListRead == cmd.op = "list" /\ cmd.at = now /\ homeOk /\ present /\ cmd.io

\* The dates the last list was asked for: <<start, end>>.
Asked ==
    IF Len(cmd.args) = 2 THEN cmd.args
    ELSE IF Len(cmd.args) = 1 THEN <<cmd.args[1], cmd.args[1]>>
    ELSE <<Today, Today>>

AskedValid == Len(cmd.args) = 0 \/ \A i \in DOMAIN cmd.args : HasMidnight(cmd.args[i])

\* The records of the file that the last list was asked for, in file order.
Wanted == SelectSeq(HistRecords, LAMBDA m : InWindow(m, Asked[1], Asked[2]))

\* The sum of the lengths of rs as a number in limbs, hi not reduced.
RECURSIVE NatSum(_)
NatSum(rs) == IF rs = <<>> THEN U32Zero ELSE AddNat(Head(rs).length, NatSum(Tail(rs)))

----------------------------------------------------------------------------
(* Properties of sequential invocations (Spec) *)

\* C1: the records printed by `list start end` are exactly the decodable
\* records of the file whose local calendar date lies in start .. end, none
\* omitted and none from outside.  (Stated for dates that have a local
\* midnight and a file that can be read.)
C1_ListPrintsExactlyRange ==
    (ListRead /\ Len(cmd.args) = 2 /\ AskedValid)
        => SeqBag(MeetingLines(out)) = SeqBag(ShownAs(Wanted))

\* What does hold of the range filter: the vector handed to print_records is
\* exactly the wanted records, and a list that ends normally printed them all.
RangeFilterExact ==
    (ListRead /\ AskedValid)
        => /\ SeqBag(records) = SeqBag(Wanted)
           /\ (result = "ok" => MeetingLines(out) = ShownAs(records))

\* C2: the records printed by `list` are in ascending order of timestamp
\* whatever the order of the lines, and records with equal timestamps keep
\* the order of their lines in the file.
C2_SortedStable ==
    (cmd.op = "list" /\ cmd.at = now)
        => /\ \A i \in 1 .. Len(records) - 1 :
                 records[i].timestamp <= records[i + 1].timestamp
           /\ IsPrefix(MeetingLines(out), ShownAs(records))
           /\ (result = "ok" => MeetingLines(out) = ShownAs(records))
           /\ (ListRead /\ AskedValid) =>
                 \A t \in {records[i].timestamp : i \in DOMAIN records} :
                    SelectSeq(records, LAMBDA m : m.timestamp = t)
                        = SelectSeq(Wanted, LAMBDA m : m.timestamp = t)

C2_Witness ==
    /\ ListRead /\ result = "ok"
    /\ records # Wanted
    /\ \E i, j \in DOMAIN records :
          /\ i < j
          /\ records[i].timestamp = records[j].timestamp
          /\ records[i].length # records[j].length

\* C3: the total reported by `list` is the sum of the included lengths: the
\* u32 accumulator equals the mathematical sum, also past 2^32 - 1, and the
\* total line is that sum in hours to one decimal.
C3_TotalIsTrueSum ==
    (ListRead /\ AskedValid)
        => /\ result = "ok"
           /\ minutes = NatSum(records)
           /\ out[Len(out)] = TotalLine(NatSum(records))

\* C4: loading never fails because of a malformed line, and what is loaded
\* is exactly one record per well-formed line, whatever malformed lines
\* stand before or after it.  (Seen through a list whose range holds every
\* record of the file.)
C4_LenientDecode ==
    (ListRead /\ AskedValid)
        => /\ result \in {"ok", "panic_overflow"}
           /\ (\A i \in DOMAIN HistRecords : InWindow(HistRecords[i], Asked[1], Asked[2]))
                 => SeqBag(records) = SeqBag(HistRecords)

C4_Witness ==
    /\ ListRead /\ AskedValid
    /\ \A i \in DOMAIN HistRecords : InWindow(HistRecords[i], Asked[1], Asked[2])
    /\ \E i, j, k \in DOMAIN hist :
          i < j /\ j < k /\ hist[i].rec # None /\ hist[j].rec = None /\ hist[k].rec # None
    /\ Len(records) = Len(HistRecords)
    /\ Len(logged) > 0

\* C5: the log is append-only: every step leaves the old content as a prefix
\* of the new and never removes the file; the content or the existence of
\* the file changes only in a successful `log`, which adds exactly one
\* encoded record and one newline; a `list` changes nothing.
C5_AppendOnly ==
    [][ /\ IsPrefix(file, file')
        /\ (present => present')
        /\ (file' # file \/ present' # present) => Len(logged') = Len(logged) + 1
        /\ (Len(logged') = Len(logged) + 1) =>
              LET e == logged'[Len(logged')] IN
              /\ cmd'.op = "log" /\ result' = "ok" /\ present'
              /\ file' = file \o <<LBrace, TsSym(At(tz, e.day, e.start * Hour)),
                                    LenSym(e.length), RBrace, NL>>
        /\ (cmd'.op = "list" /\ cmd' # cmd) => (file' = file /\ present' = present)
      ]_vars

C5_Witness ==
    /\ Len(logged) = 2 /\ Len(hist) > 2
    /\ cmd.op = "list" /\ result = "ok"

\* C6: run one after another, successful `log START LENGTH` invocations are
\* seen by a later `list` with no dates on the same local day: it prints a
\* line with today's date, START:00 and LENGTH minutes for each, and then
\* the total.
C6_LoggedAreListed ==
    (ListRead /\ cmd.args = <<>> /\ logged # <<>>)
        => /\ result = "ok"
           /\ out # <<>> /\ out[Len(out)].k = "total"
           /\ \A i \in DOMAIN logged :
                 logged[i].day = Today =>
                    LET l == [k |-> "meeting", date |-> Today, hh |-> logged[i].start,
                              mm |-> 0, length |-> logged[i].length]
                    IN  Cardinality({j \in DOMAIN out : out[j] = l})
                            >= Cardinality({j \in DOMAIN logged : logged[j] = logged[i]})

\* C7: `list D` gives what `list D D` gives, `list` gives what `list T T`
\* gives for today's date T, and the match never meets (no start, some end).
C7_ListDefaults ==
    /\ result # "panic_unreachable"
    /\ (cmd.op = "list" /\ cmd.at = now /\ Len(cmd.args) = 1)
          => Outcome(result, out, records, minutes)
               = list_range(cmd.args[1], cmd.args[1], file, present, cmd.io)
    /\ (cmd.op = "list" /\ cmd.at = now /\ Len(cmd.args) = 0)
          => Outcome(result, out, records, minutes)
               = list_range(Today, Today, file, present, cmd.io)

\* C7 as amended: the same, the last part for a today that has a local
\* midnight; on a day whose midnight is skipped `list T T` fails with an
\* invalid date while `list` lists the day.
C7_ListDefaultsAmended ==
    /\ result # "panic_unreachable"
    /\ (cmd.op = "list" /\ cmd.at = now /\ Len(cmd.args) = 1)
          => Outcome(result, out, records, minutes)
               = list_range(cmd.args[1], cmd.args[1], file, present, cmd.io)
    /\ (cmd.op = "list" /\ cmd.at = now /\ Len(cmd.args) = 0)
          => IF HasMidnight(Today)
             THEN Outcome(result, out, records, minutes)
                    = list_range(Today, Today, file, present, cmd.io)
             ELSE /\ list_range(Today, Today, file, present, cmd.io) = Fail("err_date")
                  /\ result # "err_date"

C7_Witness ==
    /\ ListRead /\ result = "ok" /\ Len(out) > 2
    /\ Len(cmd.args) = 0 /\ HasMidnight(Today)
    /\ Len(records) < Len(HistRecords)

\* C8: a `list` that fails because the home directory is unknown, the file
\* is absent or unreadable, or a date is invalid, prints nothing, and each
\* of these makes it fail; a `list` neither creates nor changes the file, so
\* before any `log` has created it `list` fails.
C8_NoPartialListing ==
    [][ (cmd'.op = "list" /\ cmd'.at = now')
          => /\ file' = file /\ present' = present
             /\ result' \in {"err_home", "err_io", "err_date"} => out' = <<>>
             /\ (~homeOk \/ ~present \/ ~cmd'.io \/ ~AskedValid')
                   => result' \in {"err_home", "err_io", "err_date"}
      ]_vars

C8_Witness ==
    /\ cmd.op = "list" /\ cmd.at = now
    /\ homeOk /\ cmd.io /\ ~present /\ result = "err_io" /\ out = <<>>

----------------------------------------------------------------------------
(* Properties of concurrent invocations (SpecRW, SpecWW) *)

LastOutcome == Outcome(result, out, records, minutes)

\* The last list read the file while the log process L1 was between its
\* start and its end, and L1 has since ended normally.
ReadDuringLog ==
    /\ cmd.op = "list" /\ cmd.io
    /\ cmd.during["L1"] \in {"open", "write", "newline"}
    /\ pc["L1"] = "done"

ListingBefore ==
    list(ParseList(cmd.args), before["L1"].content, before["L1"].present, TRUE)

ListingAfter == list(ParseList(cmd.args), file, present, TRUE)

\* C9: a `list` that reads the file at any point of one concurrent `log`
\* ends as it would have on the file before the log started or on the file
\* after the log finished, and prints what it would have printed there.
C9_ReadWhileWrite ==
    ReadDuringLog => (LastOutcome = ListingBefore \/ LastOutcome = ListingAfter)

\* C9 as amended: ... or, when the log is the one that creates the file, as
\* it would have on an empty file (the file exists from the open on, while
\* the record is written later).
C9_ReadWhileWriteAmended ==
    ReadDuringLog =>
        \/ LastOutcome = ListingBefore
        \/ LastOutcome = ListingAfter
        \/ /\ ~before["L1"].present
           /\ LastOutcome = list(ParseList(cmd.args), <<>>, TRUE, TRUE)

\* A list read the record before its newline was written, and printed it.
C9_Witness ==
    /\ ReadDuringLog
    /\ cmd.during["L1"] = "newline"
    /\ before["L1"].present /\ before["L1"].content # <<>>
    /\ result = "ok"
    /\ \E i \in DOMAIN records : records[i] = pm["L1"][1]
    /\ LastOutcome # ListingBefore

BothDone == pc["L1"] = "done" /\ pc["L2"] = "done"

BothRecords == <<pm["L1"][1], pm["L2"][1]>>

\* Each process wrote its newline right after its record.
Serial == writes \in {<<"L1", "L1", "L2", "L2">>, <<"L2", "L2", "L1", "L1">>}

\* C10: when two `log` processes run concurrently and both end normally,
\* the file decodes to both records, whatever the interleaving of their
\* writes, and a later `list` of their date prints both.
C10_NoLostRecord ==
    BothDone =>
        /\ SeqBag(FilterMapParse(Lines(file))) = SeqBag(HistRecords \o BothRecords)
        /\ (ListRead /\ AskedValid) =>
              SeqBag(records)
                = SeqBag(SelectSeq(HistRecords \o BothRecords,
                                   LAMBDA m : InWindow(m, Asked[1], Asked[2])))

\* C10 as amended: ... the file decodes to both records when each process
\* writes its newline right after its record; when a write of the other
\* process comes between, the two records share a line and both are lost.
C10_NoLostRecordAmended ==
    BothDone =>
        LET kept == IF Serial THEN HistRecords \o BothRecords ELSE HistRecords IN
        /\ SeqBag(FilterMapParse(Lines(file))) = SeqBag(kept)
        /\ (ListRead /\ AskedValid) =>
              SeqBag(records)
                = SeqBag(SelectSeq(kept, LAMBDA m : InWindow(m, Asked[1], Asked[2])))

C10_Witness ==
    /\ BothDone /\ Serial
    /\ ListRead /\ AskedValid /\ result = "ok"
    /\ \A i \in DOMAIN BothRecords : \E j \in DOMAIN records : records[j] = BothRecords[i]
    /\ pm["L1"] # pm["L2"]

====
